---- MODULE Spec2Model ----
(***************************************************************************)
(* SPaT visualizer (code_test_3_base_on_code_2.py, Offline_simulation_code *)
(* .py): the time resolver detect_unit_and_delta, the countdown smoother   *)
(* and the frame loop of main().                                           *)
(*                                                                         *)
(* Python floats are IEEE-754 doubles.  A double is modelled exactly, as a *)
(* sign and a 96-bit fixed-point magnitude: six limbs of 16 bits, most      *)
(* significant first, two limbs of integer part and four of fraction       *)
(* (units of 2^-64).  Every arithmetic result is rounded to Precision      *)
(* significant bits, round-half-to-even, as the hardware does.  All values *)
(* the program computes from counters below 2^20 are multiples of 2^-64.   *)
(***************************************************************************)
EXTENDS Integers, Sequences, FiniteSets

\* significant bits of a Python float (IEEE-754 binary64)
Precision == 53

\* Python None for an integer-valued field
None == -1

\* ------------------------------------------------------------------------
\* Magnitudes: <<i1, i2, f1, f2, f3, f4>>, value (i1*B + i2) + 0.f1f2f3f4
\* ------------------------------------------------------------------------
B == 65536

Tup(f) == <<f[1], f[2], f[3], f[4], f[5], f[6]>>

ZeroMag == <<0, 0, 0, 0, 0, 0>>

NatMag(n) == <<n \div B, n % B, 0, 0, 0, 0>>

IntPart(m) == m[1] * B + m[2]

MagLt(a, b) == \E i \in 1..6 : a[i] < b[i] /\ \A j \in 1..(i - 1) : a[j] = b[j]

AddMag(a, b) ==
  LET c[i \in 1..7] == IF i = 7 THEN 0 ELSE (a[i] + b[i] + c[i + 1]) \div B
  IN Tup([i \in 1..6 |-> (a[i] + b[i] + c[i + 1]) % B])

\* a - b for a >= b
SubMag(a, b) ==
  LET br[i \in 1..7] == IF i = 7 THEN 0
                        ELSE IF a[i] - b[i] - br[i + 1] < 0 THEN 1 ELSE 0
  IN Tup([i \in 1..6 |-> (a[i] - b[i] - br[i + 1] + B) % B])

\* position (1..96, most significant first) of the leading one bit, 0 if none
Lead(m) ==
  IF m = ZeroMag THEN 0
  ELSE LET li == CHOOSE i \in 1..6 : m[i] # 0 /\ \A j \in 1..(i - 1) : m[j] = 0
           h == CHOOSE e \in 0..15 : 2 ^ e <= m[li] /\ m[li] < 2 ^ (e + 1)
       IN 16 * (li - 1) + (16 - h)

\* round-half-to-even to Precision significant bits; st: the exact value has
\* non-zero bits below the last limb
RoundMag(m, st) ==
  LET k == Lead(m) + Precision - 1
  IN IF m = ZeroMag \/ k >= 96 THEN m
     ELSE LET lk == ((k - 1) \div 16) + 1
              u == 2 ^ (16 * lk - k)
              nxt == IF lk < 6 THEN m[lk + 1] ELSE 0
              x == 2 * (m[lk] % u) + (nxt \div 32768)
              rest == st \/ nxt % 32768 # 0 \/ \E j \in (lk + 2)..6 : m[j] # 0
              trunc == Tup([i \in 1..6 |-> IF i < lk THEN m[i]
                                            ELSE IF i = lk THEN (m[i] \div u) * u ELSE 0])
              ulp == Tup([i \in 1..6 |-> IF i = lk THEN u ELSE 0])
              up == x > u \/ (x = u /\ (rest \/ (m[lk] \div u) % 2 = 1))
          IN IF up THEN AddMag(trunc, ulp) ELSE trunc

\* n / c by long division in base B: the four fraction limbs and the last
\* remainder (non-zero when the quotient is inexact at 2^-64)
DivRem(n, c) ==
  LET r[j \in 0..4] == IF j = 0 THEN n % c ELSE (r[j - 1] * B) % c
  IN Tup([j \in 1..6 |-> IF j <= 4 THEN r[j] ELSE 0])

DivMag(n, c) ==
  LET r == DivRem(n, c)
  IN <<(n \div c) \div B, (n \div c) % B,
       ((n % c) * B) \div c, (r[1] * B) \div c, (r[2] * B) \div c, (r[3] * B) \div c>>

\* ------------------------------------------------------------------------
\* Python float values and operations
\* ------------------------------------------------------------------------
Mk(neg, m) == [def |-> TRUE, neg |-> neg /\ m # ZeroMag, mag |-> m]

\* None where a float is expected
FNone == [def |-> FALSE, neg |-> FALSE, mag |-> ZeroMag]

\* isinstance(x, (int, float))
IsNum(x) == x.def

\* float(n), n a natural number
F(n) == Mk(FALSE, NatMag(n))

\* float(n) / float(c), n an int, c a positive int
FDiv(n, c) ==
  LET a == IF n < 0 THEN 0 - n ELSE n
  IN Mk(n < 0, RoundMag(DivMag(a, c), DivRem(a, c)[4] # 0))

FNeg(x) == Mk(~x.neg, x.mag)

FAdd(x, y) ==
  IF x.neg = y.neg THEN Mk(x.neg, RoundMag(AddMag(x.mag, y.mag), FALSE))
  ELSE IF MagLt(x.mag, y.mag) THEN Mk(y.neg, RoundMag(SubMag(y.mag, x.mag), FALSE))
  ELSE Mk(x.neg, RoundMag(SubMag(x.mag, y.mag), FALSE))

FSub(x, y) == FAdd(x, FNeg(y))

FLt(x, y) ==
  IF x.neg /\ ~y.neg THEN TRUE
  ELSE IF ~x.neg /\ y.neg THEN FALSE
  ELSE IF x.neg THEN MagLt(y.mag, x.mag)
  ELSE MagLt(x.mag, y.mag)

FLe(x, y) == ~FLt(y, x)

\* max(a, b) of Python: b only if b > a
FMax(a, b) == IF FLt(a, b) THEN b ELSE a

\* min(a, b) of Python: b only if b < a
FMin(a, b) == IF FLt(b, a) THEN b ELSE a

\* math.fmod(|x|, 60.0): exact, the fraction limbs are untouched
Fmod60Mag(m) == <<0, IntPart(m) % 60, m[3], m[4], m[5], m[6]>>

\* x % 60.0 of Python (float_rem): fmod, then + 60.0 when the sign differs
PyMod60(x) ==
  LET m == Fmod60Mag(x.mag)
  IN IF m = ZeroMag THEN F(0)
     ELSE IF x.neg THEN FAdd(Mk(TRUE, m), F(60))
     ELSE Mk(FALSE, m)

\* ------------------------------------------------------------------------
\* Time resolver
\* ------------------------------------------------------------------------

\* mutant: now read in tenths of a second, as phase_end_raw is
NowSecTenths(now_val) == PyMod60(FDiv(now_val, 10))

\* (now_val / 1000.0) % 60.0
NowSec(now_val) == PyMod60(FDiv(now_val, 1000))

\* (met_val / 10.0) % 60.0
EndSec(met_val) == PyMod60(FDiv(met_val, 10))

\* mutant: the difference is not wrapped into the minute
RemainingUnwrapped(now_val, met_val) == FSub(EndSec(met_val), NowSec(now_val))

\* remaining = (end_sec - now_sec) % 60.0
Remaining(now_val, met_val) == PyMod60(FSub(EndSec(met_val), NowSec(now_val)))

\* if 0.0 <= remaining <= 60.0: the primary hypothesis is returned
PrimaryAccepted(now_val, met_val) ==
  LET remaining == Remaining(now_val, met_val)
  IN FLe(F(0), remaining) /\ FLe(remaining, F(60))

\* the four (modulo, scale) hypotheses: ((met_val - now_val) % modulo) / scale
Candidates(now_val, met_val) ==
  << FDiv((met_val - now_val) % 600, 10),
     FDiv((met_val - now_val) % 6000, 100),
     FDiv((met_val - now_val) % 60000, 1000),
     FDiv((met_val - now_val) % 65536, 1000) >>

\* min() of a non-empty sequence of floats
RECURSIVE MinOf(_)
MinOf(s) == IF Len(s) = 1 THEN s[1] ELSE FMin(s[1], MinOf(Tail(s)))

Fallback(now_val, met_val) ==
  LET candidates == Candidates(now_val, met_val)
      small == SelectSeq(candidates, LAMBDA c : FLe(F(0), c) /\ FLe(c, F(60)))
  IN IF small # <<>> THEN MinOf(small) ELSE PyMod60(MinOf(candidates))

detect_unit_and_delta(now_val, met_val) ==
  IF now_val = None \/ met_val = None THEN FNone
  ELSE LET remaining == Remaining(now_val, met_val)
       IN IF FLe(F(0), remaining) /\ FLe(remaining, F(60)) THEN remaining
          ELSE Fallback(now_val, met_val)

\* ------------------------------------------------------------------------
\* Decoded documents.  A text field is None (absent or empty), NonNumeric
\* (int() raises ValueError), BadDigit (str.isdigit() accepts it and int()
\* raises ValueError, e.g. a superscript digit) or the number it spells.
\* ------------------------------------------------------------------------
NonNumeric == -2
BadDigit == -3

NoEvent == "<None>"

EVENT2COLOR ==
  [e \in {"protected-Movement-Allowed", "permissive-Movement-Allowed",
          "protected-clearance", "permissive-clearance",
          "caution-Conflicting-Traffic", "stop-And-Remain",
          "stop-Then-Proceed", "dark"} |->
     IF e \in {"protected-Movement-Allowed", "permissive-Movement-Allowed"} THEN "green"
     ELSE IF e \in {"protected-clearance", "permissive-clearance",
                    "caution-Conflicting-Traffic"} THEN "yellow"
     ELSE "red"]

\* mutant: an event the table does not know is shown green
ColorOfDefaultGreen(cur_event) ==
  IF cur_event \in DOMAIN EVENT2COLOR THEN EVENT2COLOR[cur_event] ELSE "green"

\* EVENT2COLOR.get(cur_event, "red")
ColorOf(cur_event) ==
  IF cur_event \in DOMAIN EVENT2COLOR THEN EVENT2COLOR[cur_event] ELSE "red"

\* mutant: a signalGroup text that is not a number is passed over
RECURSIVE LaneSgSkipNonNumeric(_)
LaneSgSkipNonNumeric(conns) ==
  IF conns = <<>> THEN None
  ELSE IF Head(conns) >= 0 THEN Head(conns)
  ELSE LaneSgSkipNonNumeric(Tail(conns))

\* the signal group of a lane: the first connection with a signalGroup text
\* ends the scan, numeric or not
RECURSIVE LaneSg(_)
LaneSg(conns) ==
  IF conns = <<>> THEN None
  ELSE IF Head(conns) # None
       THEN (IF Head(conns) >= 0 THEN Head(conns) ELSE None)
       ELSE LaneSg(Tail(conns))

\* lanes[lid] = {"sg": sg} for every GenericLane in document order; a later
\* lane with the same laneID overwrites an earlier one
RECURSIVE Lanes(_)
Lanes(gls) ==
  IF gls = <<>> THEN << >>
  ELSE LET gl == gls[Len(gls)]
           before == Lanes(SubSeq(gls, 1, Len(gls) - 1))
       IN IF gl.laneID < 0 THEN before
          ELSE [lid \in (DOMAIN before) \cup {gl.laneID} |->
                  IF lid = gl.laneID THEN LaneSg(gl.conns) ELSE before[lid]]

\* mutant: the lanes are decoded without the container check
parse_mapNoContainerCheck(md) ==
  [inter_id |-> md.id, inter_name |-> md.name, lanes |-> Lanes(md.lanes)]

\* parse_map of a well-formed MapData document
parse_map(md) ==
  IF ~md.ig THEN [inter_id |-> None, inter_name |-> None, lanes |-> << >>]
  ELSE [inter_id |-> md.id, inter_name |-> md.name, lanes |-> Lanes(md.lanes)]

\* extract_now_value: ts is the first number under timeStamp / msecOfMin /
\* dSecond, moy the one under moy
extract_now_value(ts, moy) ==
  LET candidates == (IF ts # None THEN <<ts>> ELSE <<>>) \o
                    (IF moy # None THEN <<moy>> ELSE <<>>)
      fit == SelectSeq(candidates, LAMBDA v : v <= 60000 \/ v <= 6000 \/ v <= 600)
  IN IF candidates = <<>> THEN None
     ELSE IF fit # <<>> THEN fit[1]
     ELSE candidates[1]

\* the MovementState entries with a numeric signalGroup, as observations
RECURSIVE States(_)
States(mss) ==
  IF mss = <<>> THEN <<>>
  ELSE IF Head(mss).sg < 0 THEN States(Tail(mss))
  ELSE <<Head(mss)>> \o States(Tail(mss))

\* num_in_node_or_kids calls int() on a text that isdigit() accepted
Raises(blob) == blob.inter /\ (blob.ts = BadDigit \/ blob.moy = BadDigit)

\* parse_spat of a well-formed SPAT document: (now, states)
parse_spat(blob) ==
  IF ~blob.inter THEN [now |-> None, states |-> <<>>]
  ELSE [now |-> extract_now_value(blob.ts, blob.moy), states |-> States(blob.ms)]

\* ------------------------------------------------------------------------
\* Countdown smoother and frame pacing (one pass of the loop body of main)
\* ------------------------------------------------------------------------

\* mutant: with no observation of the observer's signal group the first
\* observation of the frame is taken
FirstMatchOrFirst(states, sg) ==
  IF \E i \in 1..Len(states) : states[i].sg = sg
  THEN CHOOSE i \in 1..Len(states) :
         states[i].sg = sg /\ \A j \in 1..(i - 1) : states[j].sg # sg
  ELSE IF states # <<>> THEN 1 ELSE 0

\* the first observation of the observer's signal group, 0 if there is none
FirstMatch(states, sg) ==
  IF \E i \in 1..Len(states) : states[i].sg = sg
  THEN CHOOSE i \in 1..Len(states) :
         states[i].sg = sg /\ \A j \in 1..(i - 1) : states[j].sg # sg
  ELSE 0

\* mutant: a changed phase_end_raw does not reset a running countdown
SmoothNoReset(minEndRaw, now, rem, lastMinEnd, simRem, lastTs, nominal) ==
  IF IsNum(simRem)
  THEN IF lastTs # None /\ now # None
       THEN FMax(F(0), FSub(simRem, FDiv(now - lastTs, 10)))
       ELSE FMax(F(0), FSub(simRem, nominal))
  ELSE rem

\* mutant: the countdown always drops by the nominal frame delay
SmoothNominal(minEndRaw, now, rem, lastMinEnd, simRem, lastTs, nominal) ==
  IF minEndRaw = lastMinEnd /\ IsNum(simRem)
  THEN FMax(F(0), FSub(simRem, nominal))
  ELSE rem

\* mutant: the countdown is not clamped at 0
SmoothNoClamp(minEndRaw, now, rem, lastMinEnd, simRem, lastTs, nominal) ==
  IF minEndRaw = lastMinEnd /\ IsNum(simRem)
  THEN IF lastTs # None /\ now # None
       THEN FSub(simRem, FDiv(now - lastTs, 10))
       ELSE FSub(simRem, nominal)
  ELSE rem

\* simulated_rem after a frame whose observation carries minEndRaw
Smooth(minEndRaw, now, rem, lastMinEnd, simRem, lastTs, nominal) ==
  IF minEndRaw = lastMinEnd /\ IsNum(simRem)
  THEN IF lastTs # None /\ now # None
       THEN FMax(F(0), FSub(simRem, FDiv(now - lastTs, 10)))
       ELSE FMax(F(0), FSub(simRem, nominal))
  ELSE rem

\* mutant: a frame without a now counter keeps the last one
LastTsKeepsKnown(lastTs, now) == IF now = None THEN lastTs ELSE now

\* last_ts = now_val
LastTs(lastTs, now) == now

\* the delay slept after a frame
Delay(sync, lastTs, now, nominal) ==
  IF sync /\ lastTs # None /\ now # None
  THEN LET diff == FDiv(now - lastTs, 100)
       IN IF FLe(FDiv(1, 100), diff) /\ FLe(diff, F(5)) THEN diff ELSE nominal
  ELSE nominal

\* ------------------------------------------------------------------------
\* Inputs
\* ------------------------------------------------------------------------
MaxFrames == 2

\* --rate: 0.1 (default) and 0.5
Rates == {FDiv(1, 10), FDiv(1, 2)}

LaneIds == {5, 7, 9}

GeoDoc == [wf |-> TRUE, ig |-> TRUE, id |-> 1, name |-> None,
           lanes |-> << [laneID |-> 5, conns |-> <<2>>],
                        [laneID |-> 9, conns |-> <<>>] >>]
OddDoc == [wf |-> TRUE, ig |-> TRUE, id |-> None, name |-> None,
           lanes |-> << [laneID |-> 5, conns |-> <<None, NonNumeric, 2>>],
                        [laneID |-> NonNumeric, conns |-> <<2>>],
                        [laneID |-> 7, conns |-> <<None, 3>>] >>]
NoGeoDoc == [wf |-> TRUE, ig |-> FALSE, id |-> None, name |-> None, lanes |-> <<>>]
BrokenDoc == [wf |-> FALSE, ig |-> FALSE, id |-> None, name |-> None, lanes |-> <<>>]

\* what parse_map_blocks can return: no block, or blocks of which only the
\* first is used
MapBlockLists == {<<>>, <<GeoDoc>>, <<OddDoc>>, <<NoGeoDoc>>, <<BrokenDoc>>}

MovementStates ==
  { [sg |-> 2, event |-> "stop-And-Remain", minEndRaw |-> 50],
    [sg |-> 2, event |-> "protected-Movement-Allowed", minEndRaw |-> 50],
    [sg |-> 2, event |-> "permissive-clearance", minEndRaw |-> 603],
    [sg |-> 2, event |-> "flashing", minEndRaw |-> 50],
    [sg |-> 2, event |-> NoEvent, minEndRaw |-> None],
    [sg |-> 3, event |-> "protected-Movement-Allowed", minEndRaw |-> 603],
    [sg |-> NonNumeric, event |-> "stop-And-Remain", minEndRaw |-> 50] }

\* entries that may stand before another one in states/MovementState
Leading ==
  { [sg |-> 2, event |-> "stop-And-Remain", minEndRaw |-> 50],
    [sg |-> 3, event |-> "protected-Movement-Allowed", minEndRaw |-> 603],
    [sg |-> NonNumeric, event |-> "stop-And-Remain", minEndRaw |-> 50] }

\* the MovementState lists of a record: none, one, or two entries
MsLists == {<<>>} \cup {<<a>> : a \in MovementStates}
                 \cup {<<a, b>> : a \in Leading, b \in MovementStates}

\* (timeStamp, moy) texts of a SPAT record
Clocks == {<<None, None>>, <<58000, None>>, <<59000, None>>, <<70000, 100>>}

Blobs ==
  { [wf |-> FALSE, inter |-> FALSE, ts |-> None, moy |-> None, ms |-> <<>>],
    [wf |-> TRUE, inter |-> FALSE, ts |-> BadDigit, moy |-> None, ms |-> <<>>],
    [wf |-> TRUE, inter |-> TRUE, ts |-> BadDigit, moy |-> None, ms |-> <<>>] }
  \cup { [wf |-> TRUE, inter |-> TRUE, ts |-> c[1], moy |-> c[2], ms |-> ms] :
           c \in Clocks, ms \in MsLists }

NoSt == [sg |-> None, event |-> NoEvent, minEndRaw |-> None]

\* counters handed to the resolver on its own
MaxHundreds == 12
Counters == {None, 1, 7, 50, 603, 604, 20000, 40000, 58000, 60100, 65535}
            \cup {100 * k : k \in 0..MaxHundreds}

\* ------------------------------------------------------------------------
\* Record extraction (parse_map_blocks, parse_spat_blocks).  A text is a
\* sequence of tokens: the four delimiters and "x", any other character.  No
\* delimiter is a substring of, or overlaps, another one, so str.find on the
\* characters is find on the tokens.
\* ------------------------------------------------------------------------
Tokens == {"<MapData>", "</MapData>", "<SPAT>", "</SPAT>", "x"}

\* the delimiter pair each function scans for
Delims(fn) ==
  IF fn = "parse_map_blocks" THEN <<"<MapData>", "</MapData>">>
  ELSE <<"<SPAT>", "</SPAT>">>

\* text.find(tok, start): the first position at or after start, 0 for -1
find(text, tok, start) ==
  IF \E k \in start..Len(text) : text[k] = tok
  THEN CHOOSE k \in start..Len(text) :
         text[k] = tok /\ \A h \in start..(k - 1) : text[h] # tok
  ELSE 0

\* mutant: the slice stops before the end delimiter
BlockNoEnd(text, i, j) == SubSeq(text, i, j - 1)

\* text[i:j+len("</SPAT>")]
Block(text, i, j) == SubSeq(text, i, j)

MaxText == 5

RECURSIVE Texts(_)
Texts(n) ==
  IF n = 0 THEN {<<>>}
  ELSE Texts(n - 1) \cup {Append(t, c) : t \in {u \in Texts(n - 1) : Len(u) = n - 1},
                                         c \in Tokens}

\* ------------------------------------------------------------------------
\* MapData documents handed to parse_map on its own
\* ------------------------------------------------------------------------
MaxConns == 2

\* the signalGroup text of a Connection
ConnTexts == {None, NonNumeric, 2, 3}

RECURSIVE ConnLists(_)
ConnLists(n) ==
  IF n = 0 THEN {<<>>}
  ELSE ConnLists(n - 1) \cup {Append(t, c) : t \in {u \in ConnLists(n - 1) : Len(u) = n - 1},
                                             c \in ConnTexts}

\* the laneID text of a GenericLane
LaneIdTexts == {None, NonNumeric, 5, 7}

GenericLanes == [laneID : LaneIdTexts, conns : ConnLists(MaxConns)]

\* lanes that may stand before another one in laneSet
LeadingLanes ==
  { [laneID |-> 5, conns |-> <<2>>],
    [laneID |-> 7, conns |-> <<>>],
    [laneID |-> NonNumeric, conns |-> <<3>>] }

\* the GenericLane lists of a document: none, one, or two lanes
LaneSets == {<<>>} \cup {<<a>> : a \in GenericLanes}
                  \cup {<<a, b>> : a \in LeadingLanes, b \in GenericLanes}

\* a document that is not XML, and the XML documents: with or without
\* intersections/IntersectionGeometry (ig), an id text, a name text
\* (NonNumeric: a name is a text that spells no number) and GenericLane
\* elements (under laneSet of the container when there is one)
MapDocs ==
  {BrokenDoc} \cup [wf : {TRUE}, ig : BOOLEAN, id : {None, 1},
                     name : {None, NonNumeric}, lanes : LaneSets]

NoOut == [inter_id |-> None, inter_name |-> None, lanes |-> << >>]

\* ------------------------------------------------------------------------
\* State
\* ------------------------------------------------------------------------
VARIABLES
  pc,             \* "start", "loop", "exit": where main() is
  exit_status,    \* None while running, then the status of the process
  report,         \* the message printed when the run ends, "" if none
  readable,       \* open(args.logfile) succeeds
  map_blocks,     \* parse_map_blocks(text)
  lane,           \* args.lane
  rate,           \* args.rate
  sync_time,      \* args.sync_time
  nblocks,        \* len(spat_blocks)
  lane_info, my_sg,
  last_min_end, simulated_rem, last_ts, shown,
  idx,            \* number of blobs of spat_blocks the loop has taken
  now_val, st, cur_event, rem_secs, cur_color, secs_remaining, delay,
  observed,       \* blobs taken that hold a MovementState with signalGroup my_sg
  yielding,       \* blobs taken that hold a MovementState with a numeric signalGroup
  before,         \* <<last_min_end, simulated_rem, last_ts>> when the last presented frame began
  r_pc, r_now, r_met, r_out,  \* a call of detect_unit_and_delta on its own
  x_pc, x_fn, x_text,         \* a call of parse_map_blocks / parse_spat_blocks on its own
  x_start, x_blocks,          \* ... and its locals start, blocks
  g_pc, g_doc, g_out          \* a call of parse_map on its own

inputs == <<readable, map_blocks, lane, rate, sync_time, nblocks>>
smoother == <<last_min_end, simulated_rem, last_ts, shown>>
frame == <<now_val, st, cur_event, rem_secs, cur_color, secs_remaining, delay>>
ghosts == <<observed, yielding, before>>
mainvars == <<pc, exit_status, report, inputs, lane_info, my_sg, smoother, idx, frame, ghosts>>
rvars == <<r_pc, r_now, r_met, r_out>>
xvars == <<x_pc, x_fn, x_text, x_start, x_blocks>>
gvars == <<g_pc, g_doc, g_out>>
vars == <<mainvars, rvars, xvars, gvars>>

\* no call of detect_unit_and_delta, of a block scan, of parse_map on its own
ResolverOff == r_pc = "off" /\ r_now = None /\ r_met = None /\ r_out = FNone
ExtractorOff ==
  /\ x_pc = "off" /\ x_fn = "parse_spat_blocks" /\ x_text = <<>>
  /\ x_start = 1 /\ x_blocks = <<>>
DecoderOff == g_pc = "off" /\ g_doc = BrokenDoc /\ g_out = NoOut

Idle ==
  /\ pc = "start" /\ exit_status = None /\ report = ""
  /\ lane_info = << >> /\ my_sg = None
  /\ last_min_end = None /\ simulated_rem = FNone /\ last_ts = None /\ shown = 0
  /\ idx = 0
  /\ now_val = None /\ st = NoSt /\ cur_event = NoEvent /\ rem_secs = FNone
  /\ cur_color = "red" /\ secs_remaining = FNone /\ delay = FNone
  /\ observed = 0 /\ yielding = 0 /\ before = <<None, FNone, None>>

Init ==
  /\ Idle
  /\ readable \in BOOLEAN
  /\ map_blocks \in MapBlockLists
  /\ lane \in LaneIds
  /\ rate \in Rates
  /\ sync_time \in BOOLEAN
  /\ nblocks \in 0..MaxFrames
  /\ ResolverOff /\ ExtractorOff /\ DecoderOff

\* ------------------------------------------------------------------------
\* main(): the checks before the loop
\* ------------------------------------------------------------------------
Exit(status, message) ==
  /\ pc' = "exit" /\ exit_status' = status /\ report' = message

\* open() raises: print, sys.exit(1)
ReadFails ==
  /\ pc = "start" /\ ~readable
  /\ Exit(1, "Failed to read file")
  /\ UNCHANGED <<inputs, lane_info, my_sg, smoother, idx, frame, ghosts, rvars, xvars, gvars>>

\* if not map_blocks: print, return
NoMapData ==
  /\ pc = "start" /\ readable /\ map_blocks = <<>>
  /\ Exit(0, "No MapData found in file.")
  /\ UNCHANGED <<inputs, lane_info, my_sg, smoother, idx, frame, ghosts, rvars, xvars, gvars>>

\* ET.fromstring(map_blocks[0]) raises ParseError, which nothing catches
MapParseError ==
  /\ pc = "start" /\ readable /\ map_blocks # <<>> /\ ~map_blocks[1].wf
  /\ Exit(1, "Traceback")
  /\ UNCHANGED <<inputs, lane_info, my_sg, smoother, idx, frame, ghosts, rvars, xvars, gvars>>

\* if args.lane not in lane_info: print, return
LaneNotFound ==
  /\ pc = "start" /\ readable /\ map_blocks # <<>> /\ map_blocks[1].wf
  /\ lane \notin DOMAIN parse_map(map_blocks[1]).lanes
  /\ lane_info' = parse_map(map_blocks[1]).lanes
  /\ Exit(0, "Lane not found in MAP.")
  /\ UNCHANGED <<inputs, my_sg, smoother, idx, frame, ghosts, rvars, xvars, gvars>>

\* if not spat_blocks: print, return
NoSPaT ==
  /\ pc = "start" /\ readable /\ map_blocks # <<>> /\ map_blocks[1].wf
  /\ lane \in DOMAIN parse_map(map_blocks[1]).lanes
  /\ nblocks = 0
  /\ lane_info' = parse_map(map_blocks[1]).lanes
  /\ my_sg' = parse_map(map_blocks[1]).lanes[lane]
  /\ Exit(0, "No SPaT found in file.")
  /\ UNCHANGED <<inputs, smoother, idx, frame, ghosts, rvars, xvars, gvars>>

\* every check passes: the loop starts
EnterLoop ==
  /\ pc = "start" /\ readable /\ map_blocks # <<>> /\ map_blocks[1].wf
  /\ lane \in DOMAIN parse_map(map_blocks[1]).lanes
  /\ nblocks > 0
  /\ lane_info' = parse_map(map_blocks[1]).lanes
  /\ my_sg' = parse_map(map_blocks[1]).lanes[lane]
  /\ last_min_end' = None /\ simulated_rem' = FNone /\ last_ts' = None /\ shown' = 0
  /\ pc' = "loop"
  /\ UNCHANGED <<exit_status, report, inputs, idx, frame, ghosts, rvars, xvars, gvars>>

\* ------------------------------------------------------------------------
\* main(): one pass of "for blob in spat_blocks"
\* ------------------------------------------------------------------------
Yields(blob) == blob.wf /\ blob.inter /\ \E i \in 1..Len(blob.ms) : blob.ms[i].sg >= 0

\* the record holds a MovementState whose signalGroup is the number sg
Mentions(blob, sg) ==
  blob.wf /\ blob.inter /\ \E i \in 1..Len(blob.ms) : blob.ms[i].sg >= 0 /\ blob.ms[i].sg = sg

\* ET.fromstring(blob) raises ParseError: continue
FrameMalformed(blob) ==
  /\ pc = "loop" /\ idx < nblocks
  /\ ~blob.wf
  /\ idx' = idx + 1
  /\ UNCHANGED <<pc, exit_status, report, inputs, lane_info, my_sg, smoother, frame,
                 ghosts, rvars, xvars, gvars>>

\* parse_spat raises ValueError, which nothing catches
FrameRaises(blob) ==
  /\ pc = "loop" /\ idx < nblocks
  /\ blob.wf /\ Raises(blob)
  /\ Exit(1, "Traceback")
  /\ UNCHANGED <<inputs, lane_info, my_sg, smoother, idx, frame, ghosts, rvars, xvars, gvars>>

\* if not states: continue
FrameEmpty(blob) ==
  /\ pc = "loop" /\ idx < nblocks
  /\ blob.wf /\ ~Raises(blob)
  /\ parse_spat(blob).states = <<>>
  /\ now_val' = parse_spat(blob).now
  /\ idx' = idx + 1
  /\ UNCHANGED <<pc, exit_status, report, inputs, lane_info, my_sg, smoother,
                 st, cur_event, rem_secs, cur_color, secs_remaining, delay,
                 ghosts, rvars, xvars, gvars>>

\* the frame is smoothed, presented by draw_card and slept on
FramePresented(blob) ==
  /\ pc = "loop" /\ idx < nblocks
  /\ blob.wf /\ ~Raises(blob)
  /\ LET spat == parse_spat(blob)
         states == spat.states
         now == spat.now
         m == FirstMatch(states, my_sg)
         rem == detect_unit_and_delta(now, states[m].minEndRaw)
     IN /\ states # <<>>
        /\ now_val' = now
        /\ IF m # 0
           THEN /\ st' = states[m]
                /\ cur_event' = states[m].event
                /\ rem_secs' = rem
                /\ simulated_rem' = Smooth(states[m].minEndRaw, now, rem,
                                           last_min_end, simulated_rem, last_ts, rate)
                /\ last_min_end' = states[m].minEndRaw
           ELSE /\ st' = NoSt
                /\ cur_event' = NoEvent
                /\ rem_secs' = FNone
                /\ UNCHANGED <<simulated_rem, last_min_end>>
        /\ cur_color' = ColorOf(cur_event')
        /\ secs_remaining' = simulated_rem'
        /\ delay' = Delay(sync_time, last_ts, now, rate)
        /\ last_ts' = LastTs(last_ts, now)
        /\ shown' = shown + 1
        /\ yielding' = yielding + (IF Yields(blob) THEN 1 ELSE 0)
        /\ observed' = observed + (IF Mentions(blob, my_sg) THEN 1 ELSE 0)
        /\ before' = <<last_min_end, simulated_rem, last_ts>>
        /\ idx' = idx + 1
  /\ UNCHANGED <<pc, exit_status, report, inputs, lane_info, my_sg, rvars, xvars, gvars>>

\* the loop is over: if shown == 0: print
Finish ==
  /\ pc = "loop" /\ idx = nblocks
  /\ Exit(0, IF shown = 0
             THEN "SPaT frames found, but none referenced your lane's signal group."
             ELSE "")
  /\ UNCHANGED <<inputs, lane_info, my_sg, smoother, idx, frame, ghosts, rvars, xvars, gvars>>

Next ==
  \/ ReadFails
  \/ NoMapData
  \/ MapParseError
  \/ LaneNotFound
  \/ NoSPaT
  \/ EnterLoop
  \/ \E blob \in Blobs : FrameMalformed(blob)
  \/ \E blob \in Blobs : FrameRaises(blob)
  \/ \E blob \in Blobs : FrameEmpty(blob)
  \/ \E blob \in Blobs : FramePresented(blob)
  \/ Finish

Spec == Init /\ [][Next]_vars

\* ------------------------------------------------------------------------
\* detect_unit_and_delta called on its own
\* ------------------------------------------------------------------------
InitResolver ==
  /\ Idle
  /\ readable = FALSE /\ map_blocks = <<>> /\ lane = 5 /\ rate = FDiv(1, 10)
  /\ sync_time = FALSE /\ nblocks = 0
  /\ r_pc = "call" /\ r_now \in Counters /\ r_met \in Counters /\ r_out = FNone
  /\ ExtractorOff /\ DecoderOff

Resolve ==
  /\ r_pc = "call"
  /\ r_out' = detect_unit_and_delta(r_now, r_met)
  /\ r_pc' = "return"
  /\ UNCHANGED <<mainvars, r_now, r_met, xvars, gvars>>

NextResolver == Resolve

SpecResolver == InitResolver /\ [][NextResolver]_vars

\* ------------------------------------------------------------------------
\* parse_map_blocks / parse_spat_blocks called on their own: one pass of
\* "while True" per step
\* ------------------------------------------------------------------------
MainOff ==
  /\ Idle
  /\ readable = FALSE /\ map_blocks = <<>> /\ lane = 5 /\ rate = FDiv(1, 10)
  /\ sync_time = FALSE /\ nblocks = 0

InitExtractor ==
  /\ MainOff /\ ResolverOff /\ DecoderOff
  /\ x_pc = "scan" /\ x_fn \in {"parse_map_blocks", "parse_spat_blocks"}
  /\ x_text \in Texts(MaxText)
  /\ x_start = 1 /\ x_blocks = <<>>

\* both finds succeed: blocks.append(...), start = j + len(end delimiter)
ScanAppend ==
  /\ x_pc = "scan"
  /\ LET i == find(x_text, Delims(x_fn)[1], x_start)
         j == IF i = 0 THEN 0 ELSE find(x_text, Delims(x_fn)[2], i)
     IN /\ i # 0 /\ j # 0
        /\ x_blocks' = Append(x_blocks, Block(x_text, i, j))
        /\ x_start' = j + 1
  /\ UNCHANGED <<mainvars, rvars, gvars, x_pc, x_fn, x_text>>

\* if i == -1: break / if j == -1: break; return blocks
ScanBreak ==
  /\ x_pc = "scan"
  /\ LET i == find(x_text, Delims(x_fn)[1], x_start)
         j == IF i = 0 THEN 0 ELSE find(x_text, Delims(x_fn)[2], i)
     IN i = 0 \/ j = 0
  /\ x_pc' = "done"
  /\ UNCHANGED <<mainvars, rvars, gvars, x_fn, x_text, x_start, x_blocks>>

NextExtractor == ScanAppend \/ ScanBreak

\* the loop is sequential code that keeps running until it breaks
SpecExtractor == InitExtractor /\ [][NextExtractor]_vars /\ WF_vars(NextExtractor)

\* ------------------------------------------------------------------------
\* parse_map called on its own
\* ------------------------------------------------------------------------
InitDecoder ==
  /\ MainOff /\ ResolverOff /\ ExtractorOff
  /\ g_pc = "call" /\ g_doc \in MapDocs /\ g_out = NoOut

\* ET.fromstring(md_xml) raises ParseError
DecodeRaises ==
  /\ g_pc = "call" /\ ~g_doc.wf
  /\ g_pc' = "raise"
  /\ UNCHANGED <<mainvars, rvars, xvars, g_doc, g_out>>

\* return inter_id, inter_name, lanes
Decode ==
  /\ g_pc = "call" /\ g_doc.wf
  /\ g_out' = parse_map(g_doc)
  /\ g_pc' = "return"
  /\ UNCHANGED <<mainvars, rvars, xvars, g_doc>>

NextDecoder == DecodeRaises \/ Decode

SpecDecoder == InitDecoder /\ [][NextDecoder]_vars

\* ------------------------------------------------------------------------
\* Properties of the resolver (SpecResolver)
\* ------------------------------------------------------------------------

\* ((met_val * 100) - now_val) mod 60000: the primary-hypothesis remainder in
\* milliseconds, in exact integer arithmetic
ExactMs(now, met) == (met * 100 - now) % 60000

\* x is within 2^-32 s of ms milliseconds
Near(x, ms) == IsNum(x) /\ MagLt(FSub(x, FDiv(ms, 1000)).mag, <<0, 0, 0, 1, 0, 0>>)

\* ... modulo 60 s
NearMod60(x, ms) == Near(x, ms) \/ (ms = 0 /\ Near(x, 60000))

Returned == r_pc = "return" /\ r_now # None /\ r_met # None

\* C1 as stated: detect_unit_and_delta(X, X) returns 0.0 for every counter X.
C1_IdentityDelta == (Returned /\ r_now = r_met) => r_out = F(0)

\* C1 amended: detect_unit_and_delta(X, X) returns 0.0 exactly when X is a
\* multiple of 20000; for every other X it returns the non-zero remainder
\* (99 * X mod 60000) / 1000 s, because now is read in milliseconds and
\* phase_end_raw in tenths of a second.
C1_IdentityDeltaAmended ==
  (Returned /\ r_now = r_met) =>
     /\ (r_out = F(0)) <=> (r_now % 20000 = 0)
     /\ NearMod60(r_out, (99 * r_now) % 60000)

C1_Witness == Returned /\ r_now = 40000 /\ r_met = 40000 /\ r_out = F(0)

\* C2 as stated: the result is the primary-hypothesis remainder, lies in
\* [0, 60) and the fallback hypotheses are never reached.
C2_HalfOpen ==
  Returned =>
     /\ PrimaryAccepted(r_now, r_met)
     /\ NearMod60(r_out, ExactMs(r_now, r_met))
     /\ FLe(F(0), r_out) /\ FLt(r_out, F(60))

\* C2 amended: the result is the primary-hypothesis remainder as computed in
\* floating point, lies in the closed interval [0, 60] (60.0 is returned when
\* end_sec - now_sec rounds to a tiny negative number) and the fallback
\* hypotheses are never reached.
C2_Closed ==
  Returned =>
     /\ PrimaryAccepted(r_now, r_met)
     /\ NearMod60(r_out, ExactMs(r_now, r_met))
     /\ FLe(F(0), r_out) /\ FLe(r_out, F(60))

C2_Witness == Returned /\ r_now = 300 /\ r_met = 603 /\ r_out = F(60)

\* ------------------------------------------------------------------------
\* Properties of the record extractor (SpecExtractor)
\* ------------------------------------------------------------------------

\* b is one record: start delimiter, a body without either delimiter, end
\* delimiter
IsRecord(b, open, close) ==
  /\ Len(b) >= 2 /\ b[1] = open /\ b[Len(b)] = close
  /\ \A k \in 2..(Len(b) - 1) : b[k] # open /\ b[k] # close

\* text is n >= 0 records concatenated with no separator
RECURSIVE IsRecords(_, _, _)
IsRecords(text, open, close) ==
  \/ text = <<>>
  \/ \E j \in 2..Len(text) :
       /\ IsRecord(SubSeq(text, 1, j), open, close)
       /\ IsRecords(SubSeq(text, j + 1, Len(text)), open, close)

RECURSIVE Concat(_)
Concat(bs) == IF bs = <<>> THEN <<>> ELSE Head(bs) \o Concat(Tail(bs))

CountOf(text, tok) == Cardinality({k \in 1..Len(text) : text[k] = tok})

\* what the scan has returned
Extracted ==
  LET open == Delims(x_fn)[1]
      close == Delims(x_fn)[2]
  IN x_pc = "done" =>
       \* every block starts with the start and ends with the end delimiter
       /\ \A k \in 1..Len(x_blocks) :
            /\ x_blocks[k] # <<>>
            /\ Head(x_blocks[k]) = open
            /\ x_blocks[k][Len(x_blocks[k])] = close
       \* n records with no separator give exactly those n records, in order
       /\ IsRecords(x_text, open, close) =>
            /\ Len(x_blocks) = CountOf(x_text, open)
            /\ Concat(x_blocks) = x_text
            /\ \A k \in 1..Len(x_blocks) : IsRecord(x_blocks[k], open, close)
       \* the text the scan stopped in holds no start delimiter with a later
       \* end delimiter, and is in no block
       /\ x_start <= Len(x_text) + 1
       /\ Len(Concat(x_blocks)) <= x_start - 1
       /\ ~ \E i \in x_start..Len(x_text), j \in x_start..Len(x_text) :
              i < j /\ x_text[i] = open /\ x_text[j] = close

\* C11: n well-formed records concatenated with no separator are extracted as
\* exactly n blocks in source order, each from its start delimiter to its end
\* delimiter; the scan always terminates; a start delimiter with no later end
\* delimiter ends the scan and the remaining text is dropped.
C11_Extraction == [](Extracted) /\ <>(x_pc = "done")

\* two records with no separator, extracted as two blocks
C11_Witness ==
  /\ x_pc = "done" /\ x_fn = "parse_spat_blocks"
  /\ x_text = <<"<SPAT>", "x", "</SPAT>", "<SPAT>", "</SPAT>">>
  /\ x_blocks = << <<"<SPAT>", "x", "</SPAT>">>, <<"<SPAT>", "</SPAT>">> >>


\* ------------------------------------------------------------------------
\* Properties of the geometry decoder (SpecDecoder)
\* ------------------------------------------------------------------------

\* parse_map has ended on a document that is XML
Decoded == g_pc \in {"return", "raise"} /\ g_doc.wf

\* the laneIDs of the document that spell a number
NumericLaneIds(gls) == {gls[k].laneID : k \in {h \in 1..Len(gls) : gls[h].laneID >= 0}}

\* C12 as stated: parse_map signals a failure (an exception, or a result the
\* caller can tell from every decoded (id, name, lanes)) when and only when
\* the record lacks the geometry container.
C12_DecodeError ==
  Decoded => ((g_pc = "raise" \/ g_out = NoOut) <=> ~g_doc.ig)

\* C12 amended: parse_map raises only when the record is not XML.  Without the
\* container it returns (None, None, {}); with it, the id, the name and one
\* entry per numeric laneID, which is (None, None, {}) again when the
\* container holds no id, no name and no numeric laneID.
C12_NoContainerAmended ==
  (g_pc \in {"return", "raise"}) =>
     /\ (g_pc = "raise") <=> ~g_doc.wf
     /\ (g_pc = "return" /\ ~g_doc.ig) => g_out = NoOut
     /\ (g_pc = "return" /\ g_doc.ig) =>
          /\ g_out.inter_id = g_doc.id
          /\ g_out.inter_name = g_doc.name
          /\ DOMAIN g_out.lanes = NumericLaneIds(g_doc.lanes)
          /\ (g_out = NoOut) <=>
               (g_doc.id = None /\ g_doc.name = None /\ NumericLaneIds(g_doc.lanes) = {})

\* a document with an id, a name and a lane but no container decodes to
\* (None, None, {})
C12_Witness ==
  /\ g_pc = "return" /\ ~g_doc.ig
  /\ g_doc.id = 1 /\ g_doc.name # None /\ NumericLaneIds(g_doc.lanes) = {5}
  /\ g_out = NoOut

\* the last GenericLane of the document with this laneID
LastLane(gls, lid) ==
  gls[CHOOSE k \in 1..Len(gls) :
        gls[k].laneID = lid /\ \A h \in (k + 1)..Len(gls) : gls[h].laneID # lid]

\* the value of the first connection whose signalGroup is numeric
FirstNumeric(conns) ==
  IF \E k \in 1..Len(conns) : conns[k] >= 0
  THEN conns[CHOOSE k \in 1..Len(conns) :
               conns[k] >= 0 /\ \A h \in 1..(k - 1) : conns[h] < 0]
  ELSE None

\* the value of the first connection that has a signalGroup text, if that
\* text is numeric
FirstText(conns) ==
  IF \E k \in 1..Len(conns) : conns[k] # None
  THEN LET k == CHOOSE k \in 1..Len(conns) :
                  conns[k] # None /\ \A h \in 1..(k - 1) : conns[h] = None
       IN IF conns[k] >= 0 THEN conns[k] ELSE None
  ELSE None

\* C13 as stated: every lane's signal group is the value of its first
\* connection with a numeric signalGroup, absent only if it has none.
C13_FirstNumeric ==
  (g_pc = "return" /\ g_doc.ig) =>
     /\ DOMAIN g_out.lanes = NumericLaneIds(g_doc.lanes)
     /\ \A lid \in DOMAIN g_out.lanes :
          g_out.lanes[lid] = FirstNumeric(LastLane(g_doc.lanes, lid).conns)

\* C13 amended: every lane's signal group is decided by its first connection
\* that has a signalGroup text at all: the number it spells, or absent when
\* it spells none (the scan stops there) or when no connection has one.
C13_FirstTextAmended ==
  (g_pc = "return" /\ g_doc.ig) =>
     /\ DOMAIN g_out.lanes = NumericLaneIds(g_doc.lanes)
     /\ \A lid \in DOMAIN g_out.lanes :
          g_out.lanes[lid] = FirstText(LastLane(g_doc.lanes, lid).conns)

\* a non-numeric signalGroup before a numeric one leaves the lane unmapped
C13_Witness ==
  /\ g_pc = "return" /\ g_doc.ig
  /\ g_doc.lanes = << [laneID |-> 5, conns |-> <<NonNumeric, 2>>] >>
  /\ g_out.lanes[5] = None

\* ------------------------------------------------------------------------
\* Properties of the frame loop (Spec)
\* ------------------------------------------------------------------------

\* the step presents a frame that holds an observation of the observer's
\* signal group
MatchedFrame == pc = "loop" /\ shown' = shown + 1 /\ st'.sg # None

\* C3 as stated: across a frame whose observation carries the phase_end_raw
\* recorded at the previous one, the simulated remaining time does not
\* increase and is not negative, whatever the now counters are.
C3_Monotone ==
  [][(MatchedFrame /\ IsNum(simulated_rem) /\ st'.minEndRaw = last_min_end)
       => /\ IsNum(simulated_rem')
          /\ FLe(simulated_rem', simulated_rem)
          /\ FLe(F(0), simulated_rem')]_vars

\* C4 as stated: simulated_rem is absent or in [0, 60).
C4_Range ==
  IsNum(simulated_rem) => FLe(F(0), simulated_rem) /\ FLt(simulated_rem, F(60))

\* C5: a frame whose observation carries a phase_end_raw different from the
\* recorded one sets simulated_rem to the resolver's estimate for that frame.
C5_Reset ==
  [][(MatchedFrame /\ st'.minEndRaw # last_min_end)
       => simulated_rem' = detect_unit_and_delta(now_val', st'.minEndRaw)]_vars

\* a reset that replaced a running countdown
C5_Witness ==
  /\ pc = "loop" /\ shown = 2 /\ st.sg # None
  /\ IsNum(before[2]) /\ before[1] # st.minEndRaw
  /\ IsNum(simulated_rem) /\ simulated_rem # before[2]
  /\ simulated_rem = rem_secs

\* the end-to-end scenario: lane 5 on signal group 2, no clock sync, record 1
\* (stop-And-Remain, now 58000, phase_end_raw 50) followed by record 2 (now
\* 59000, phase_end_raw 50)
ScenarioStep ==
  /\ lane = 5 /\ my_sg = 2 /\ ~sync_time
  /\ pc = "loop" /\ idx = 1 /\ shown = 1
  /\ now_val = 58000
  /\ st = [sg |-> 2, event |-> "stop-And-Remain", minEndRaw |-> 50]
  /\ idx' = 2 /\ shown' = 2
  /\ now_val' = 59000 /\ st'.sg = 2 /\ st'.minEndRaw = 50

\* C6 as stated: record 1 is presented red with 7.0 s, record 2 with
\* max(0, 7.0 - rate).
C6_Scenario ==
  [][ScenarioStep
       => /\ cur_color = "red" /\ secs_remaining = F(7)
          /\ secs_remaining' = FMax(F(0), FSub(F(7), rate))]_vars

\* C6 amended: record 1 is presented red with 7.0 s, record 2 with
\* max(0, 7.0 - (59000 - 58000) / 10) = 0.0 s: both now counters are present,
\* so the countdown drops by their difference read as tenths of a second,
\* with or without clock sync.
C6_ScenarioAmended ==
  [][ScenarioStep
       => /\ cur_color = "red" /\ secs_remaining = F(7)
          /\ secs_remaining' = FMax(F(0), FSub(F(7), FDiv(59000 - 58000, 10)))
          /\ secs_remaining' = F(0)]_vars

C6_Witness ==
  /\ lane = 5 /\ my_sg = 2 /\ ~sync_time
  /\ pc = "loop" /\ idx = 2 /\ shown = 2
  /\ now_val = 59000 /\ st.sg = 2 /\ st.minEndRaw = 50
  /\ before = <<50, F(7), 58000>>
  /\ secs_remaining = F(0)

\* the four fatal preconditions
Unreadable == ~readable
NoGeometryRecord == readable /\ map_blocks = <<>>
LaneAbsent ==
  /\ readable /\ map_blocks # <<>> /\ map_blocks[1].wf
  /\ lane \notin DOMAIN parse_map(map_blocks[1]).lanes
NoPhaseRecords ==
  /\ readable /\ map_blocks # <<>> /\ map_blocks[1].wf
  /\ lane \in DOMAIN parse_map(map_blocks[1]).lanes
  /\ nblocks = 0
FatalPrecondition == Unreadable \/ NoGeometryRecord \/ LaneAbsent \/ NoPhaseRecords

\* C7 as stated: under a fatal precondition the loop never starts, and the
\* run ends with a report, a non-zero exit status and no frame presented.
C7_Fatal ==
  FatalPrecondition =>
     /\ pc # "loop" /\ idx = 0 /\ shown = 0
     /\ pc = "exit" => (report # "" /\ exit_status # 0)

\* what main() does instead: the loop never starts and the run ends with a
\* report and no frame presented, but the exit status is non-zero only for an
\* unreadable input; the three other conditions end with a plain return.
FatalAsCoded ==
  FatalPrecondition =>
     /\ pc # "loop" /\ idx = 0 /\ shown = 0
     /\ pc = "exit" => /\ report \notin {"", "Traceback"}
                       /\ (exit_status # 0) <=> Unreadable
                       /\ (exit_status = 0) <=> ~Unreadable

\* the loop ran over every phase record
AllProcessed == pc = "exit" /\ nblocks > 0 /\ idx = nblocks

NoneReferenced == "SPaT frames found, but none referenced your lane's signal group."

\* C8 as stated: when every record was processed and no frame held an
\* observation of the observer's signal group, the run ends with the "none
\* referenced your lane's signal group" report.
C8_NoObserverReport == (AllProcessed /\ observed = 0) => report = NoneReferenced

\* the loop was entered
LoopEntered ==
  /\ readable /\ map_blocks # <<>> /\ map_blocks[1].wf
  /\ lane \in DOMAIN parse_map(map_blocks[1]).lanes
  /\ nblocks > 0

\* C9 as stated: no phase record stops the loop; every record is processed
\* and the presentations are the records that yield an observation.
C9_NeverStops ==
  (pc = "exit" /\ LoopEntered) => (idx = nblocks /\ shown = yielding)

\* C10: a presented frame is green or yellow only if the observation of the
\* observer's signal group names an event the table maps to that color;
\* otherwise it is red.
C10_FailSafe ==
  (pc = "loop" /\ shown > 0) =>
     /\ cur_color \in {"green", "yellow", "red"}
     /\ cur_color = "green" =>
          /\ st.sg = my_sg /\ st.sg # None
          /\ st.event \in {"protected-Movement-Allowed", "permissive-Movement-Allowed"}
     /\ cur_color = "yellow" =>
          /\ st.sg = my_sg /\ st.sg # None
          /\ st.event \in {"protected-clearance", "permissive-clearance",
                           "caution-Conflicting-Traffic"}

C10_Witness ==
  /\ pc = "loop" /\ shown > 0 /\ st.sg = my_sg /\ st.event = "flashing"
  /\ cur_color = "red"

\* the step presents a frame (draw_card, sleep, shown += 1)
PresentedFrame == pc = "loop" /\ shown' = shown + 1

C15_Decrement ==
  [][(MatchedFrame /\ IsNum(simulated_rem) /\ st'.minEndRaw = last_min_end)
       => LET delta == IF last_ts # None /\ now_val' # None
                       THEN FDiv(now_val' - last_ts, 10)
                       ELSE rate
              lowered == FSub(simulated_rem, delta)
          IN simulated_rem' = (IF FLt(lowered, F(0)) THEN F(0) ELSE lowered)]_vars

\* under --sync-time, 7.0 s was clamped to 0.0 s by (59000 - 58000) / 10
C15_Witness ==
  /\ pc = "loop" /\ shown = 2 /\ sync_time /\ st.sg # None
  /\ before = <<50, F(7), 58000>> /\ st.minEndRaw = 50
  /\ now_val = 59000 /\ simulated_rem = F(0)
  /\ rate = FDiv(1, 2)

\* the step presents a record that holds observations, none of them of the
\* observer's signal group
UnmatchedFrame ==
  pc = "loop" /\ idx' = idx + 1 /\ yielding' = yielding + 1 /\ observed' = observed

\* C16: a frame with observations but none of the observer's signal group
\* leaves last_min_end and simulated_rem alone, is presented red with the
\* simulated_rem of the last matching frame, is counted in shown, and moves
\* last_ts to its own now.
C16_Unmatched ==
  [][UnmatchedFrame
       => /\ last_min_end' = last_min_end /\ simulated_rem' = simulated_rem
          /\ cur_color' = "red" /\ secs_remaining' = simulated_rem
          /\ shown' = shown + 1
          /\ last_ts' = now_val']_vars

\* after a matching frame with 7.0 s left, a frame of signal group 3 only is
\* shown red with the stale 7.0 s
C16_Witness ==
  /\ pc = "loop" /\ shown = 2 /\ my_sg = 2 /\ observed = 1 /\ yielding = 2
  /\ st = NoSt /\ cur_color = "red"
  /\ before = <<50, F(7), 58000>>
  /\ last_min_end = 50 /\ simulated_rem = F(7) /\ secs_remaining = F(7)
  /\ now_val = 59000 /\ last_ts = 59000

====
